---- MODULE Spec2Model ----
(***************************************************************************)
(* Hack4Gaza backend (src/main.py): the in-memory query store queries_db,  *)
(* the websocket ConnectionManager and the request handlers, as one state  *)
(* machine.  The handlers run as asyncio tasks: a step of the model is the *)
(* code a task runs between two points where it really suspends.           *)
(* process_query and the first half of submit_expert_response await only   *)
(* coroutines that never suspend (chroma, the LLM client and psycopg2 are  *)
(* blocking calls), so they are single steps; ConnectionManager.broadcast  *)
(* suspends in every "await connection.send_json".                         *)
(***************************************************************************)
EXTENDS Integers, Sequences, FiniteSets, TLC

\* ---------------------------------------------------------------- bounds
MaxCalls   == 2      \* submit_expert_response requests
MaxConns   == 2      \* websocket connections
MaxQueries == 2      \* uuid4 draws for query ids
MaxLiveQueries == 1  \* queries submitted while the live fan-out is explored
MaxExperts == 6      \* size of the largest persisted experts collection

Calls    == 1..MaxCalls
Conns    == 1..MaxConns
QueryIds == 1..MaxQueries

top_k == 5           \* main.py:117
None  == "None"

\* ---------------------------------------------------------------- inputs
Questions == {"", "who knows water purification"}

\* SubmitExpertResponseRequest bodies (main.py:75-78)
SubmitExpertResponseRequests ==
    { [expert_id |-> "e1", expert_name |-> "Amal", response |-> "boil it"],
      [expert_id |-> "e2", expert_name |-> "Omar", response |-> "filter it"] }

\* datetime.utcnow().isoformat() (main.py:212): the wall clock may give two
\* calls the same value, which is the case kept here.
Timestamps == {"2025-07-01T10:00:00"}

\* ---------------------------------------------------------------- state
VARIABLES
    collection,          \* chroma "experts" collection: sequence of stored experts
    queries_db,          \* main.py:64  query_id -> UserQuery
    active_connections,  \* main.py:83  query_id -> set of websockets
    pg_queries,          \* Postgres table queries (rows)
    pg_answers,          \* Postgres table answers (rows, in insert order)
    issued,              \* the ids uuid4 has returned for queries
    last_query,          \* the last POST /query: what its collaborators did, its HTTP response
    call,                \* submit_expert_response tasks
    ws,                  \* websocket_endpoint tasks and their connections
    inbox                \* per connection: the JSON messages the server pushed to it

vars == <<collection, queries_db, active_connections, pg_queries, pg_answers,
          issued, last_query, call, ws, inbox>>

\* ---------------------------------------------------------------- helpers
RECURSIVE SeqCount(_, _)
SeqCount(s, x) ==
    IF s = <<>> THEN 0
    ELSE (IF Head(s) = x THEN 1 ELSE 0) + SeqCount(Tail(s), x)

SetMin(S) == CHOOSE x \in S : \A y \in S : x <= y

\* The ids of a set in increasing order: dict insertion order of queries_db,
\* whose keys are inserted in the order uuid4 issued them.
InOrder(S) ==
    [k \in 1..Cardinality(S) |-> CHOOSE x \in S : Cardinality({y \in S : y < x}) = k - 1]

\* ------------------------------------------------- Expert Catalog (chroma)
\* A stored expert: id plus the metadata add_expert writes.
StoredExpert(i) ==
    [id |-> i, name |-> "expert", expertise |-> "water", description |-> "field engineer"]

Roster(n) == [i \in 1..n |-> StoredExpert(i)]

\* PersistentClient reloads whatever an earlier run stored.
PersistedCollections == { Roster(0), Roster(MaxExperts) }

\* Cosine distance of a stored document to the query text, in hundredths.
\* The embedding is Gemini's; any fixed table stands for it.
Distance(query, i) ==
    IF query = "" THEN ((i * 5) % 7) * 10 ELSE ((i * 3) % 7) * 10

\* The index of the nearest expert among the positions in S.
Nearest(query, S) ==
    CHOOSE i \in S : \A j \in S :
        \/ Distance(query, collection[i].id) < Distance(query, collection[j].id)
        \/ /\ Distance(query, collection[i].id) = Distance(query, collection[j].id)
           /\ i <= j

RECURSIVE Ranked(_, _, _)
Ranked(query, S, n) ==
    IF S = {} \/ n = 0 THEN <<>>
    ELSE LET i == Nearest(query, S)
         IN <<i>> \o Ranked(query, S \ {i}, n - 1)

\* collection.query(query_texts=[query], n_results=n): nearest first, at most n.
collection_query(query, n_results) ==
    LET hits == Ranked(query, DOMAIN collection, n_results)
    IN [ ids       |-> << [k \in DOMAIN hits |-> collection[hits[k]].id] >>,
         metadatas |-> << [k \in DOMAIN hits |->
                             [name        |-> collection[hits[k]].name,
                              expertise   |-> collection[hits[k]].expertise,
                              description |-> collection[hits[k]].description]] >>,
         distances |-> << [k \in DOMAIN hits |-> Distance(query, collection[hits[k]].id)] >> ]

\* search_similar_experts, were it to pass the distance on as the score.
search_similar_experts_unconverted(query, k, chroma_ok) ==
    IF ~chroma_ok THEN <<>>
    ELSE LET results == collection_query(query, k)
         IN [i \in DOMAIN results.ids[1] |->
                [id               |-> results.ids[1][i],
                 name             |-> results.metadatas[1][i].name,
                 expertise        |-> results.metadatas[1][i].expertise,
                 description      |-> results.metadatas[1][i].description,
                 similarity_score |-> results.distances[1][i]]]

\* ChromaService.search_similar_experts: a failed chroma call is swallowed and
\* gives the empty list.  Scores are in hundredths: 1 - distance is 100 - d.
search_similar_experts(query, k, chroma_ok) ==
    IF ~chroma_ok THEN <<>>
    ELSE LET results == collection_query(query, k)
         IN [i \in DOMAIN results.ids[1] |->
                [id               |-> results.ids[1][i],
                 name             |-> results.metadatas[1][i].name,
                 expertise        |-> results.metadatas[1][i].expertise,
                 description      |-> results.metadatas[1][i].description,
                 similarity_score |-> 100 - results.distances[1][i]]]

\* LLMService.get_answer: the exception is printed and None is returned.
get_answer(query, llm_ok) ==
    IF llm_ok THEN "Water purification involves..." ELSE None

\* ---------------------------------------------------------------- Init
IdleCall == [pc |-> "idle", query_id |-> 0, response_obj |-> None,
             audience |-> {}, pending |-> {}, status |-> 0]

\* missed: the calls on the socket's id that had appended their response and
\* completed when the socket subscribed
NewSocket == [pc |-> "new", query_id |-> 0, open |-> TRUE, missed |-> {}]

NoQuery == [question |-> None, catalog |-> "none", generator |-> "none",
            mirror |-> "none", query_id |-> 0, status |-> 0, body |-> None]

Init ==
    /\ collection \in PersistedCollections
    /\ queries_db = <<>>
    /\ active_connections = <<>>
    /\ pg_queries = {}
    /\ pg_answers = <<>>
    /\ issued = {}
    /\ last_query = NoQuery
    /\ call = [h \in Calls |-> IdleCall]
    /\ ws = [c \in Conns |-> NewSocket]
    /\ inbox = [c \in Conns |-> <<>>]

\* ------------------------------------------------------------ Query Service
\* uuid4, were it to return an id it has returned before.
uuid4_repeating == IF issued = {} THEN Cardinality(issued) + 1 ELSE SetMin(issued)

\* str(uuid.uuid4()): a value no earlier call returned (the 122 random bits
\* are taken as collision-free); ids are numbered in the order they are drawn.
uuid4 == Cardinality(issued) + 1

\* ExpertResponse(...) built from one element of top_experts (main.py:126-132)
ExpertResponse(expert) ==
    [id               |-> expert.id,
     name             |-> expert.name,
     expertise        |-> expert.expertise,
     description      |-> expert.description,
     similarity_score |-> expert.similarity_score]

\* class QueryRequest (main.py:38-39): query: str, every string validates.
QueryRequestValid(query) == query \in STRING

\* UserQuery, were llm_answer declared Optional[str].
UserQueryValid_optional(llm_answer) == TRUE

\* UserQuery(...) (main.py:68-73, 137-143); llm_answer: str refuses None.
UserQueryValid(llm_answer) == llm_answer # None

UserQuery(id, question, assigned_experts, llm_answer, expert_responses) ==
    [id               |-> id,
     question         |-> question,
     assigned_experts |-> assigned_experts,
     llm_answer       |-> llm_answer,
     expert_responses |-> expert_responses]

\* class QueryResponse (main.py:48-50): the fields of the response model
QueryResponse == {"experts", "llm_answer"}

\* FastAPI serialises a handler's return value through response_model: the
\* keys that are no field of the model are dropped (main.py:111).
serialize_response(response_model, content) ==
    [f \in response_model \cap DOMAIN content |-> content[f]]

json_dumps(value) == <<"json", value>>

HTTPException(status_code, detail) == [status |-> status_code, body |-> [detail |-> detail]]

\* What the catalog did in a call, as the caller of search_similar_experts
\* cannot see it: the chroma call failed, or it matched nothing.
CatalogOutcome(top_experts, chroma_ok) ==
    IF ~chroma_ok THEN "failed" ELSE IF top_experts = <<>> THEN "empty" ELSE "hits"

\* What the generator did in a call: get_answer gives None when it failed.
GeneratorOutcome(llm_answer) == IF llm_answer = None THEN "failed" ELSE "ok"

\* POST /query (main.py:111-162).  The three collaborators are blocking calls:
\* the handler never yields, it is one step.
process_query(query, chroma_ok, llm_ok, pg_ok) ==
    LET top_experts      == search_similar_experts(query, top_k, chroma_ok)
        llm_answer       == get_answer(query, llm_ok)
        expert_responses == [i \in DOMAIN top_experts |-> ExpertResponse(top_experts[i])]
        query_id         == uuid4
        seen             == [question |-> query,
                             catalog  |-> CatalogOutcome(top_experts, chroma_ok)]
    IN
    IF ~QueryRequestValid(query) THEN
        \* FastAPI refuses the body before the handler runs
        /\ last_query' = [question |-> query, catalog |-> "none", generator |-> "none",
                          mirror |-> "none", query_id |-> 0]
                         @@ HTTPException(422, "string type expected")
        /\ UNCHANGED <<queries_db, pg_queries, issued>>
    ELSE IF top_experts = <<>> THEN
        \* line 121 raises 404 inside the try: line 161 catches it and raises 500
        /\ last_query' = seen @@ [generator |-> "none", mirror |-> "none", query_id |-> 0]
                         @@ HTTPException(500,
                              "Error processing query: 404: No experts found in database")
        /\ UNCHANGED <<queries_db, pg_queries, issued>>
    ELSE IF ~UserQueryValid(llm_answer) THEN
        \* line 136 draws the id, line 137 raises the validation error, line 161
        /\ Cardinality(issued) < MaxQueries
        /\ issued' = issued \cup {query_id}
        /\ last_query' = seen @@ [generator |-> GeneratorOutcome(llm_answer), mirror |-> "none", query_id |-> query_id]
                         @@ HTTPException(500,
                              "Error processing query: 1 validation error for UserQuery")
        /\ UNCHANGED <<queries_db, pg_queries>>
    ELSE
        /\ Cardinality(issued) < MaxQueries
        /\ issued' = issued \cup {query_id}
        /\ queries_db' = (query_id :> UserQuery(query_id, query, expert_responses,
                                                llm_answer, <<>>)) @@ queries_db
        /\ IF pg_ok
           THEN /\ pg_queries' = pg_queries \cup
                       { [id |-> query_id, question |-> query, llm_answer |-> llm_answer,
                          assigned_experts |-> json_dumps(expert_responses)] }
                /\ last_query' =
                       seen @@ [generator |-> GeneratorOutcome(llm_answer), mirror |-> "ok", query_id |-> query_id,
                                status |-> 200,
                                body |-> serialize_response(QueryResponse,
                                            [experts    |-> expert_responses,
                                             llm_answer |-> llm_answer,
                                             query_id   |-> query_id])]
           ELSE \* line 159 raises 500, line 161 catches it and raises 500 again
                /\ pg_queries' = pg_queries
                /\ last_query' =
                       seen @@ [generator |-> GeneratorOutcome(llm_answer), mirror |-> "failed", query_id |-> query_id]
                            @@ HTTPException(500,
                                 "Error processing query: 500: Postgres error")

\* GET /query/{query_id} (main.py:164-169)
get_query(query_id) ==
    IF query_id \in DOMAIN queries_db
    THEN [status |-> 200, body |-> queries_db[query_id]]
    ELSE HTTPException(404, "Query not found")

\* GET /query_list (main.py:171-191)
get_query_list ==
    LET ids == InOrder(DOMAIN queries_db)
    IN [queries |-> [k \in DOMAIN ids |->
            [id               |-> queries_db[ids[k]].id,
             question         |-> queries_db[ids[k]].question,
             assigned_experts |-> queries_db[ids[k]].assigned_experts]]]

\* GET /all_answers (main.py:310-331)
get_all_answers ==
    LET ids == InOrder(DOMAIN queries_db)
    IN [queries |-> [k \in DOMAIN ids |->
            [id               |-> queries_db[ids[k]].id,
             question         |-> queries_db[ids[k]].question,
             assigned_experts |-> queries_db[ids[k]].assigned_experts,
             expert_responses |-> queries_db[ids[k]].expert_responses]]]

\* DELETE /queries, were it to empty the responses and keep the queries.
clear_all_queries_keeping ==
    queries_db' = [q \in DOMAIN queries_db |-> [queries_db[q] EXCEPT !.expert_responses = <<>>]]

\* DELETE /queries (main.py:305-308)
clear_all_queries == queries_db' = <<>>

\* DELETE /experts (main.py:292-303)
clear_all_experts == collection' = <<>>

\* -------------------------------------------------------- Broadcast Registry
\* The pushes of the calls that completed on query_id, in call order.
RECURSIVE History(_, _)
History(query_id, h) ==
    IF h > MaxCalls THEN <<>>
    ELSE (IF call[h].pc = "done" /\ call[h].query_id = query_id /\ call[h].status # 404
          THEN << [call |-> h, message |-> [type |-> "expert_response",
                                            data |-> call[h].response_obj]] >>
          ELSE <<>>) \o History(query_id, h + 1)

\* connect, were it to replay the responses a query already has.
connect_replaying(query_id, websocket) ==
    /\ active_connections' =
          IF query_id \in DOMAIN active_connections
          THEN [active_connections EXCEPT ![query_id] = @ \cup {websocket}]
          ELSE (query_id :> {websocket}) @@ active_connections
    /\ inbox' = [inbox EXCEPT ![websocket] = @ \o History(query_id, 1)]

\* connect, were it to register a socket only under an id of a stored query.
connect_known_only(query_id, websocket) ==
    /\ active_connections' =
          IF query_id \notin DOMAIN queries_db THEN active_connections
          ELSE IF query_id \in DOMAIN active_connections
          THEN [active_connections EXCEPT ![query_id] = @ \cup {websocket}]
          ELSE (query_id :> {websocket}) @@ active_connections
    /\ inbox' = inbox

\* ConnectionManager.connect (main.py:85-89): accept, then register.  accept()
\* pushes no application message to the client.
connect(query_id, websocket) ==
    /\ active_connections' =
          IF query_id \in DOMAIN active_connections
          THEN [active_connections EXCEPT ![query_id] = @ \cup {websocket}]
          ELSE (query_id :> {websocket}) @@ active_connections
    /\ inbox' = inbox

\* disconnect, were it to miss the socket and leave the registry as it is.
disconnect_missing(registry, query_id, websocket) == registry

\* disconnect, were it to leave an emptied entry in the registry.
disconnect_leaving_empty(registry, query_id, websocket) ==
    IF query_id \in DOMAIN registry
    THEN [registry EXCEPT ![query_id] = @ \ {websocket}]
    ELSE registry

\* ConnectionManager.disconnect (main.py:91-95), as the registry it leaves.
disconnect(registry, query_id, websocket) ==
    IF query_id \in DOMAIN registry
    THEN LET rest == registry[query_id] \ {websocket}
         IN IF rest = {}
            THEN [q \in DOMAIN registry \ {query_id} |-> registry[q]]
            ELSE [registry EXCEPT ![query_id] = rest]
    ELSE registry

\* list(self.active_connections[query_id]) (main.py:98-99): the connections a
\* broadcast will send to, none when the id has no entry.
snapshot(query_id) ==
    IF query_id \in DOMAIN active_connections THEN active_connections[query_id] ELSE {}

\* The next element of the list: a set of sockets is iterated in the order of
\* their hashes, which is fixed per socket; the socket's number stands for it.
next_connection(pending) == SetMin(pending)

\* One turn of the loop, were the except clause to swallow the error of
\* send_json without unregistering the socket.
send_to_next_keeping(h, query_id, message, pending, task) ==
    LET connection == next_connection(pending)
        rest       == pending \ {connection}
    IN /\ inbox' = IF ws[connection].open
                   THEN [inbox EXCEPT ![connection] =
                            Append(@, [call |-> h, message |-> message])]
                   ELSE inbox
       /\ active_connections' = active_connections
       /\ call' = [call EXCEPT ![h] =
                      IF rest = {}
                      THEN [task EXCEPT !.pc = "done", !.pending = {}, !.status = 200]
                      ELSE [task EXCEPT !.pc = "sending", !.pending = rest]]

\* One turn of the loop in broadcast (main.py:99-103) for task h: send_json
\* hands the message to an open transport, and raises on a closed one, which
\* unregisters the socket.  The task suspends in the await, or the loop ends.
send_to_next(h, query_id, message, pending, task) ==
    LET connection == next_connection(pending)
        rest       == pending \ {connection}
    IN /\ IF ws[connection].open
          THEN /\ inbox' = [inbox EXCEPT ![connection] =
                                Append(@, [call |-> h, message |-> message])]
               /\ active_connections' = active_connections
          ELSE /\ inbox' = inbox
               /\ active_connections' = disconnect(active_connections, query_id, connection)
       /\ call' = [call EXCEPT ![h] =
                      IF rest = {}
                      THEN [task EXCEPT !.pc = "done", !.pending = {}, !.status = 200]
                      ELSE [task EXCEPT !.pc = "sending", !.pending = rest]]

\* append, were it to assign a fresh list.
append_overwriting(expert_responses, response_obj) == <<response_obj>>

\* append, were it to insert at the front.
append_in_front(expert_responses, response_obj) == <<response_obj>> \o expert_responses

\* append, were it to come after the Postgres insert and be skipped by its raise.
append_skipped(expert_responses, response_obj) == expert_responses

\* query.expert_responses.append(response_obj) (main.py:214)
append_response(expert_responses, response_obj) == Append(expert_responses, response_obj)

ExpertResponseMessage(response_obj) == [type |-> "expert_response", data |-> response_obj]

\* The refusal of an unknown id, were it to tell the id's subscribers.
not_found_pushing(h, query_id) ==
    /\ call' = [call EXCEPT ![h] =
                   [IdleCall EXCEPT !.pc = "done", !.query_id = query_id, !.status = 404,
                                    !.audience = snapshot(query_id)]]
    /\ inbox' = [c \in Conns |->
                    IF c \in snapshot(query_id) /\ ws[c].open
                    THEN Append(inbox[c], [call |-> h,
                                           message |-> [type |-> "error",
                                                        data |-> "Query not found"]])
                    ELSE inbox[c]]
    /\ UNCHANGED <<queries_db, pg_answers, active_connections>>

\* queries_db.get finds nothing: the handler raises 404 (main.py:204-206).
not_found(h, query_id) ==
    /\ call' = [call EXCEPT ![h] =
                   [IdleCall EXCEPT !.pc = "done", !.query_id = query_id, !.status = 404,
                                    !.audience = snapshot(query_id)]]
    /\ UNCHANGED <<queries_db, pg_answers, active_connections, inbox>>

\* POST /query/{query_id}/expert_response (main.py:202-233), from the start
\* of the handler to its first suspension, in broadcast's first send_json.
submit_expert_response(h, query_id, req, now, pg_ok) ==
    /\ call[h].pc = "idle"
    /\ \A earlier \in 1..(h - 1) : call[earlier].pc # "idle"   \* numbered as they arrive
    /\ IF query_id \notin DOMAIN queries_db THEN
          not_found(h, query_id)
       ELSE
          LET response_obj == [expert_id   |-> req.expert_id,
                               expert_name |-> req.expert_name,
                               response    |-> req.response,
                               timestamp   |-> now]
              task == [IdleCall EXCEPT !.query_id = query_id,
                                       !.response_obj = response_obj,
                                       !.audience = snapshot(query_id)]
          IN /\ queries_db' = [queries_db EXCEPT ![query_id].expert_responses =
                                  append_response(@, response_obj)]
             /\ IF ~pg_ok THEN
                   \* line 230 raises: the handler ends before line 232
                   /\ call' = [call EXCEPT ![h] =
                                  [task EXCEPT !.pc = "done", !.status = 500]]
                   /\ UNCHANGED <<pg_answers, active_connections, inbox>>
                ELSE
                   /\ pg_answers' = Append(pg_answers,
                          [query_id    |-> query_id,
                           expert_id   |-> req.expert_id,
                           expert_name |-> req.expert_name,
                           response    |-> req.response,
                           timestamp   |-> response_obj.timestamp])
                   /\ IF snapshot(query_id) = {}
                      THEN /\ call' = [call EXCEPT ![h] =
                                          [task EXCEPT !.pc = "done", !.status = 200]]
                           /\ UNCHANGED <<active_connections, inbox>>
                      ELSE send_to_next(h, query_id, ExpertResponseMessage(response_obj),
                                        snapshot(query_id), task)

\* broadcast resumes after an await and takes the next turn of its loop.
broadcast_resume(h) ==
    /\ call[h].pc = "sending"
    /\ send_to_next(h, call[h].query_id, ExpertResponseMessage(call[h].response_obj),
                    call[h].pending, call[h])

\* ------------------------------------------------------- websocket_endpoint
\* /ws/query/{query_id} (main.py:193-195): a client opens a socket on an id.
websocket_connect(c, query_id) ==
    /\ ws[c].pc = "new"
    /\ connect(query_id, c)
    /\ ws' = [ws EXCEPT ![c] = [pc |-> "receiving", query_id |-> query_id, open |-> TRUE,
                                missed |-> {h \in Calls : /\ call[h].pc = "done"
                                                          /\ call[h].query_id = query_id
                                                          /\ call[h].status # 404}]]

\* The peer goes away: the transport is closed, the task still waits in
\* receive_text.
client_close(c) ==
    /\ ws[c].pc = "receiving"
    /\ ws[c].open
    /\ ws' = [ws EXCEPT ![c].open = FALSE]

\* receive_text raises WebSocketDisconnect (main.py:199-200).
websocket_disconnect(c) ==
    /\ ws[c].pc = "receiving"
    /\ ~ws[c].open
    /\ active_connections' = disconnect(active_connections, ws[c].query_id, c)
    /\ ws' = [ws EXCEPT ![c].pc = "closed"]

\* ---------------------------------------------------------------- Next
SubmitQuery ==
    /\ \E query \in Questions, chroma_ok \in BOOLEAN, llm_ok \in BOOLEAN, pg_ok \in BOOLEAN :
          process_query(query, chroma_ok, llm_ok, pg_ok)
    /\ UNCHANGED <<collection, active_connections, pg_answers, call, ws, inbox>>

\* POST /query while the catalog, the generator and Postgres all answer.
SubmitQueryServed ==
    /\ Cardinality(issued) < MaxLiveQueries
    /\ \E query \in Questions : process_query(query, TRUE, TRUE, TRUE)
    /\ UNCHANGED <<collection, active_connections, pg_answers, call, ws, inbox>>

SubmitExpertResponse ==
    /\ \E h \in Calls, query_id \in QueryIds, req \in SubmitExpertResponseRequests,
          now \in Timestamps, pg_ok \in BOOLEAN :
          submit_expert_response(h, query_id, req, now, pg_ok)
    /\ UNCHANGED <<collection, pg_queries, issued, last_query, ws>>

BroadcastResume ==
    /\ \E h \in Calls : broadcast_resume(h)
    /\ UNCHANGED <<collection, queries_db, pg_queries, pg_answers, issued, last_query, ws>>

WebsocketConnect ==
    /\ \E c \in Conns, query_id \in QueryIds : websocket_connect(c, query_id)
    /\ UNCHANGED <<collection, queries_db, pg_queries, pg_answers, issued, last_query, call>>

ClientClose ==
    /\ \E c \in Conns : client_close(c)
    /\ UNCHANGED <<collection, queries_db, active_connections, pg_queries, pg_answers,
                   issued, last_query, call, inbox>>

WebsocketDisconnect ==
    /\ \E c \in Conns : websocket_disconnect(c)
    /\ UNCHANGED <<collection, queries_db, pg_queries, pg_answers, issued, last_query,
                   call, inbox>>

ClearAllQueries ==
    /\ clear_all_queries
    /\ UNCHANGED <<collection, active_connections, pg_queries, pg_answers, issued,
                   last_query, call, ws, inbox>>

ClearAllExperts ==
    /\ clear_all_experts
    /\ UNCHANGED <<queries_db, active_connections, pg_queries, pg_answers, issued,
                   last_query, call, ws, inbox>>

\* The whole service.
Next ==
    \/ SubmitQuery
    \/ SubmitExpertResponse
    \/ BroadcastResume
    \/ WebsocketConnect
    \/ ClientClose
    \/ WebsocketDisconnect
    \/ ClearAllQueries
    \/ ClearAllExperts

Spec == Init /\ [][Next]_vars

\* The Query Service without live subscribers: query submission under every
\* outcome of its three collaborators, expert responses, and the two clears.
\* process_query reads and writes none of call, ws, inbox, active_connections.
NextQuery ==
    \/ SubmitQuery
    \/ ClearAllQueries
    \/ ClearAllExperts

SpecQuery == Init /\ [][NextQuery]_vars

\* The live fan-out: expert responses, broadcasts and sockets under every
\* interleaving, over queries whose submission was served.  Sockets and
\* responses name any id of QueryIds, so an id is met before it exists,
\* while it exists, after clear_all, and when it never exists.
NextLive ==
    \/ SubmitQueryServed
    \/ SubmitExpertResponse
    \/ BroadcastResume
    \/ WebsocketConnect
    \/ ClientClose
    \/ WebsocketDisconnect
    \/ ClearAllQueries

SpecLive == Init /\ [][NextLive]_vars

\* POST /query while the catalog, the generator and Postgres all answer, for
\* as many queries as there are ids.
SubmitNextQuery ==
    /\ Cardinality(issued) < MaxQueries
    /\ \E query \in Questions : process_query(query, TRUE, TRUE, TRUE)
    /\ UNCHANGED <<collection, active_connections, pg_answers, call, ws, inbox>>

\* The life of the stored records: several queries side by side, with the
\* responses, broadcasts and sockets of the live fan-out.
NextRecords ==
    \/ SubmitNextQuery
    \/ SubmitExpertResponse
    \/ BroadcastResume
    \/ WebsocketConnect
    \/ ClientClose
    \/ WebsocketDisconnect

SpecRecords == Init /\ [][NextRecords]_vars

\* ================================================================ properties
\* The positions in a socket's inbox of the pushes that call h caused.
PushesOf(c, h) == { i \in DOMAIN inbox[c] : inbox[c][i].call = h }

\* Call h found its query and appended its response.
Appended(h) == call[h].pc # "idle" /\ call[h].status # 404

\* Socket c is connected: registered by its endpoint and its transport open.
Connected(c) == ws[c].pc = "receiving" /\ ws[c].open

\* C1: every connection subscribed to the query id before a
\* submit_expert_response call started, and still connected, has received
\* exactly one push for that call once it has completed, with the appended
\* response as data, whatever the outcome of the Postgres insert.
C1_ExactlyOnePush ==
    \A h \in Calls :
        (call[h].pc = "done" /\ Appended(h)) =>
            \A c \in call[h].audience :
                Connected(c) =>
                    /\ Cardinality(PushesOf(c, h)) = 1
                    /\ \A i \in PushesOf(c, h) :
                          inbox[c][i].message =
                              [type |-> "expert_response", data |-> call[h].response_obj]

\* C2: a connection that subscribed to a query id after a call on that id had
\* completed holds no push for that call's response, in any later state.
C2_NoReplay ==
    \A c \in Conns : \A h \in ws[c].missed : PushesOf(c, h) = {}

\* C2 witness: a socket subscribed after call 1 had completed with pushes
\* sent, and has since received the push of call 2 on the same id.
C2_Witness ==
    \E c \in Conns :
        /\ 1 \in ws[c].missed
        /\ call[1].status = 200
        /\ call[1].audience # {}
        /\ PushesOf(c, 2) # {}

\* C3: when the Postgres insert of a submit_expert_response call failed, the
\* response was still pushed to every subscriber the id had, still connected.
C3_BroadcastAfterFailedMirror ==
    \A h \in Calls :
        (call[h].pc = "done" /\ call[h].status = 500) =>
            \A c \in call[h].audience : Connected(c) => PushesOf(c, h) # {}

\* C4: of two calls on one query id, the one that appended first (calls are
\* numbered as they arrive, and a call appends in its first step) is pushed
\* first to every subscriber that has received both pushes.
C4_PerSubscriberOrder ==
    \A h1 \in Calls, h2 \in Calls :
        (h1 < h2 /\ Appended(h1) /\ Appended(h2) /\ call[h1].query_id = call[h2].query_id) =>
            \A c \in Conns :
                \A i \in PushesOf(c, h1), j \in PushesOf(c, h2) : i < j

\* C5: two calls with distinct responses on one query id that is still in the
\* store, no other call having appended an equal response to it, each have
\* their response in the query's expert_responses exactly once, at every point
\* of every interleaving after both appended.
C5_BothAppendedOnce ==
    \A h1 \in Calls, h2 \in Calls :
        ( /\ h1 # h2
          /\ Appended(h1) /\ Appended(h2)
          /\ call[h1].query_id = call[h2].query_id
          /\ call[h1].query_id \in DOMAIN queries_db
          /\ call[h1].response_obj # call[h2].response_obj
          /\ \A h3 \in Calls \ {h1, h2} :
                (Appended(h3) /\ call[h3].query_id = call[h1].query_id) =>
                    call[h3].response_obj \notin {call[h1].response_obj,
                                                  call[h2].response_obj} ) =>
            /\ SeqCount(queries_db[call[h1].query_id].expert_responses,
                        call[h1].response_obj) = 1
            /\ SeqCount(queries_db[call[h1].query_id].expert_responses,
                        call[h2].response_obj) = 1

\* C5 witness: both calls are suspended in their broadcasts on the same id,
\* with distinct responses.
C5_Witness ==
    /\ call[1].pc = "sending" /\ call[2].pc = "sending"
    /\ call[1].query_id = call[2].query_id
    /\ call[1].response_obj # call[2].response_obj
    /\ call[1].query_id \in DOMAIN queries_db

\* The responses of the calls that appended to query_id, in call order.
RECURSIVE ResponsesInCallOrder(_, _)
ResponsesInCallOrder(query_id, h) ==
    IF h > MaxCalls THEN <<>>
    ELSE (IF Appended(h) /\ call[h].query_id = query_id
          THEN <<call[h].response_obj>> ELSE <<>>)
         \o ResponsesInCallOrder(query_id, h + 1)

C6_Step ==
    \A q \in DOMAIN queries_db :
        q \in DOMAIN queries_db' =>
            LET old == queries_db[q].expert_responses
                new == queries_db'[q].expert_responses
            IN \/ new = old
               \/ /\ Len(new) = Len(old) + 1
                  /\ SubSeq(new, 1, Len(old)) = old

C6_CallOrder ==
    \A q \in DOMAIN queries_db :
        queries_db[q].expert_responses = ResponsesInCallOrder(q, 1)

\* C6: while a query stays in the store every step leaves its
\* expert_responses as they were or adds one element at the end, and the
\* sequence is at all times the responses of the calls on it, one per call,
\* in call order, equal responses included.
C6_AppendOnly == [][C6_Step]_vars /\ []C6_CallOrder

\* C6 witness: a query holds the responses of two calls.
C6_Witness ==
    \E q \in DOMAIN queries_db : Len(queries_db[q].expert_responses) = 2

\* C7: a step in which POST /query succeeds takes an id that uuid4 had not
\* returned before and that the store did not hold, and get_query on it then
\* gives the catalog's hits in the catalog's order, each with the score of the
\* catalog's distance, at most top_k of them, and no expert responses.
C7_FreshIdAndSnapshot ==
    [][ \A id \in QueryIds :
          (last_query'.status = 200 /\ last_query'.query_id = id
                                    /\ last_query.query_id # id) =>
              LET hits   == collection_query(last_query'.question, top_k)
                  answer == get_query(id)'
              IN /\ id \notin issued
                 /\ id \notin DOMAIN queries_db
                 /\ answer.status = 200
                 /\ answer.body.id = id
                 /\ Len(answer.body.assigned_experts) = Len(hits.ids[1])
                 /\ Len(answer.body.assigned_experts) <= top_k
                 /\ \A i \in DOMAIN answer.body.assigned_experts :
                       /\ answer.body.assigned_experts[i].id = hits.ids[1][i]
                       /\ answer.body.assigned_experts[i].similarity_score
                             = 100 - hits.distances[1][i]
                 /\ answer.body.expert_responses = <<>> ]_vars

\* C7 witness: the second id was issued after clear_all dropped the first,
\* and its query holds top_k experts out of a larger collection.
C7_Witness ==
    /\ last_query.status = 200
    /\ last_query.query_id = 2
    /\ DOMAIN queries_db = {2}
    /\ Len(collection) > top_k
    /\ Len(queries_db[2].assigned_experts) = top_k

\* C8: the body of a successful POST /query carries the id of the new query.
C8_ResultCarriesQueryId ==
    last_query.status = 200 =>
        /\ "query_id" \in DOMAIN last_query.body
        /\ last_query.body.query_id = last_query.query_id

\* C9: POST /query answers 404 when the catalog matched no expert, a 5xx when
\* the catalog call failed, and creates no query in either case.
C9_EmptyCatalogIsNotFound ==
    /\ last_query.catalog = "empty" => last_query.status = 404
    /\ last_query.catalog = "failed" => last_query.status \in 500..599
    /\ last_query.catalog \in {"empty", "failed"} => last_query.query_id = 0

\* C10: a POST /query whose Postgres insert failed answers 5xx and leaves the
\* store and the three read operations as they were before it.
C10_FailedMirrorLeavesNoRecord ==
    [][ (last_query'.mirror = "failed" /\ last_query'.query_id # last_query.query_id) =>
          /\ last_query'.status \in 500..599
          /\ queries_db' = queries_db
          /\ \A id \in QueryIds : get_query(id)' = get_query(id)
          /\ get_query_list' = get_query_list
          /\ get_all_answers' = get_all_answers ]_vars

\* C11: when the Postgres insert of submit_expert_response fails for a known
\* query id, the call ends with a 5xx and the response it appended stays: the
\* step puts it at the end of the query's expert_responses, one element more
\* than before, and while the query is in the store the response is there.
C11_Step ==
    \A h \in Calls :
        (call[h].pc = "idle" /\ call'[h].pc = "done" /\ call'[h].status = 500) =>
            LET query_id == call'[h].query_id
            IN /\ query_id \in DOMAIN queries_db
               /\ query_id \in DOMAIN queries_db'
               /\ queries_db'[query_id].expert_responses =
                      Append(queries_db[query_id].expert_responses, call'[h].response_obj)
               /\ pg_answers' = pg_answers

C11_Kept ==
    \A h \in Calls :
        (call[h].pc = "done" /\ call[h].status = 500
            /\ call[h].query_id \in DOMAIN queries_db) =>
            SeqCount(queries_db[call[h].query_id].expert_responses,
                     call[h].response_obj) >= 1

C11_FailedMirrorKeepsAppend == [][C11_Step]_vars /\ []C11_Kept

\* A response whose insert failed is the last of two responses of its query.
C11_Witness ==
    \E h \in Calls :
        /\ call[h].pc = "done" /\ call[h].status = 500
        /\ call[h].query_id \in DOMAIN queries_db
        /\ LET expert_responses == queries_db[call[h].query_id].expert_responses
           IN /\ Len(expert_responses) = 2
              /\ expert_responses[2] = call[h].response_obj
              /\ expert_responses[1] # call[h].response_obj
              /\ Len(pg_answers) = 1

\* Call h takes a turn of broadcast's loop in this step: its first, at the end
\* of the handler's first stretch, or a later one.
Sends(h) ==
    /\ call'[h] # call[h]
    /\ \/ call[h].pc = "sending"
       \/ /\ call[h].pc = "idle"
          /\ call'[h].status \notin {404, 500}
          /\ call'[h].audience # {}

\* The connection that turn sends to.
Attempted(h) ==
    IF call[h].pc = "sending" THEN next_connection(call[h].pending)
                              ELSE next_connection(call'[h].audience)

\* C12: a send that fails unregisters that subscriber and nothing else: the
\* loop goes on with the subscribers that were left to send to, the broadcast
\* does not fail and submit_expert_response answers 200.  When the call has
\* returned, every connection of its audience has the message or is closed
\* and out of the registry.
C12_Step ==
    \A h \in Calls, query_id \in QueryIds :
        (Sends(h) /\ ~ws[Attempted(h)].open /\ call'[h].query_id = query_id) =>
            LET before == IF call[h].pc = "sending" THEN call[h].pending
                                                    ELSE call'[h].audience
            IN /\ Attempted(h) \notin snapshot(query_id)'
               /\ \A other \in Conns \ {Attempted(h)} :
                      (other \in snapshot(query_id)) <=> (other \in snapshot(query_id)')
               /\ inbox' = inbox
               /\ IF before = {Attempted(h)}
                  THEN call'[h].pc = "done" /\ call'[h].status = 200
                  ELSE call'[h].pc = "sending" /\ call'[h].pending = before \ {Attempted(h)}

C12_Returned ==
    \A h \in Calls :
        (call[h].pc = "done" /\ call[h].status = 200) =>
            \A c \in call[h].audience :
                \/ Cardinality(PushesOf(c, h)) = 1
                \/ ~ws[c].open /\ c \notin snapshot(call[h].query_id)

C12_FailedDeliveryIsolated == [][C12_Step]_vars /\ []C12_Returned

\* A call returned 200 after its send to the first subscriber failed: that
\* one is out of the registry, the second one has the message.
C12_Witness ==
    \E h \in Calls :
        /\ call[h].pc = "done" /\ call[h].status = 200
        /\ call[h].audience = Conns
        /\ \E failed \in Conns, other \in Conns :
              /\ failed < other
              /\ PushesOf(failed, h) = {}
              /\ failed \notin snapshot(call[h].query_id)
              /\ ws[failed].pc = "receiving"
              /\ ws[failed].missed = {}
              /\ Cardinality(PushesOf(other, h)) = 1

\* C13: once the endpoint of connection c has unregistered it, no call that
\* starts later has c in the set it broadcasts to and c receives nothing
\* more; a broadcast on an id without an entry in the registry sends nothing,
\* answers 200 and leaves the registry as it is.
C13_Step ==
    /\ \A c \in Conns :
          ws[c].pc = "closed" =>
              /\ inbox'[c] = inbox[c]
              /\ \A h \in Calls :
                    (call[h].pc = "idle" /\ call'[h].pc # "idle") =>
                        c \notin call'[h].audience
    /\ \A h \in Calls, query_id \in QueryIds :
          ( /\ call[h].pc = "idle" /\ call'[h].pc # "idle"
            /\ call'[h].query_id = query_id
            /\ call'[h].status \notin {404, 500}
            /\ query_id \notin DOMAIN active_connections ) =>
              /\ call'[h].pc = "done"
              /\ call'[h].status = 200
              /\ active_connections' = active_connections
              /\ inbox' = inbox

C13_NoDeliveryAfterUnsubscribe == [][C13_Step]_vars

\* The last subscriber of an id received one response, went away and was
\* unregistered; a second response on that id was then broadcast to nobody.
C13_Witness ==
    \E c \in Conns :
        /\ ws[c].pc = "closed"
        /\ active_connections = <<>>
        /\ call[1].pc = "done" /\ call[1].status = 200 /\ call[1].audience = {c}
        /\ Cardinality(PushesOf(c, 1)) = 1
        /\ call[2].pc = "done" /\ call[2].status = 200 /\ call[2].audience = {}
        /\ call[2].query_id = call[1].query_id
        /\ 2 \notin ws[c].missed
        /\ Len(inbox[c]) = 1

\* C14: clear_all_queries on a store that holds queries leaves it empty:
\* get_query answers 404 for every id issued so far, and the rows of
\* pg_queries and pg_answers are left as they are; afterwards
\* submit_expert_response on an issued id that is no longer stored answers 404.
C14_Step ==
    /\ (DOMAIN queries_db # {} /\ clear_all_queries) =>
          /\ \A id \in issued : get_query(id)'.status = 404
          /\ pg_queries' = pg_queries
          /\ pg_answers' = pg_answers
    /\ \A h \in Calls, id \in QueryIds :
          ( /\ call[h].pc = "idle" /\ call'[h].pc # "idle"
            /\ call'[h].query_id = id
            /\ id \in issued \ DOMAIN queries_db ) =>
              /\ call'[h].status = 404
              /\ pg_answers' = pg_answers

C14_ClearForgetsQueriesOnly == [][C14_Step]_vars

\* A query that had a mirrored response was cleared, and a response sent to
\* its id afterwards was refused; both tables still hold their rows.
C14_Witness ==
    /\ issued # {}
    /\ DOMAIN queries_db = {}
    /\ \A id \in issued : get_query(id).status = 404
    /\ \E row \in pg_queries : row.id \in issued
    /\ Len(pg_answers) = 1
    /\ call[1].pc = "done" /\ call[1].status = 200 /\ call[1].query_id \in issued
    /\ call[2].pc = "done" /\ call[2].status = 404 /\ call[2].query_id = call[1].query_id

\* C15: a submit_query whose question is the empty string is refused with a
\* 4xx, the catalog and the generator are not called, and no query id is drawn.
C15_EmptyQuestionRejected ==
    last_query.question = "" =>
        /\ last_query.status \in 400..499
        /\ last_query.catalog = "none"
        /\ last_query.generator = "none"
        /\ last_query.query_id = 0

\* C16: submit_expert_response on an id that is not in the store answers 404
\* and changes nothing: no query gains a response, no row is written, the
\* registry is as before and no socket receives anything, the sockets
\* registered under that id included.
C16_Step ==
    \A h \in Calls :
        ( /\ call[h].pc = "idle" /\ call'[h].pc # "idle"
          /\ call'[h].query_id \notin DOMAIN queries_db ) =>
            /\ call'[h].pc = "done"
            /\ call'[h].status = 404
            /\ queries_db' = queries_db
            /\ pg_queries' = pg_queries
            /\ pg_answers' = pg_answers
            /\ active_connections' = active_connections
            /\ inbox' = inbox

C16_UnknownIdHasNoEffect == [][C16_Step]_vars

\* A response was refused for an id that never existed while an open socket
\* was registered under that id; the socket has received nothing.
C16_Witness ==
    \E h \in Calls, c \in Conns :
        /\ call[h].pc = "done" /\ call[h].status = 404
        /\ call[h].query_id \notin issued
        /\ c \in call[h].audience
        /\ Connected(c)
        /\ inbox[c] = <<>>
        /\ pg_answers = <<>>

\* C17: a submit_query whose generator call failed answers a 5xx that
\* carries no query id, and the id it drew names no record of the store and
\* no row of pg_queries; no stored or mirrored query has a missing or an
\* empty llm_answer.
C17_FailedGeneratorLeavesNoRecord ==
    /\ last_query.generator = "failed" =>
          /\ last_query.status \in 500..599
          /\ "query_id" \notin DOMAIN last_query.body
          /\ last_query.query_id \notin DOMAIN queries_db
          /\ \A row \in pg_queries : row.id # last_query.query_id
    /\ \A id \in DOMAIN queries_db : queries_db[id].llm_answer \notin {None, ""}
    /\ \A row \in pg_queries : row.llm_answer \notin {None, ""}

\* The generator failed for the second submission, after a first one was
\* stored and mirrored.
C17_Witness ==
    /\ last_query.generator = "failed"
    /\ last_query.catalog = "hits"
    /\ last_query.status = 500
    /\ last_query.query_id = 2
    /\ DOMAIN queries_db = {1}
    /\ \E row \in pg_queries : row.id = 1

\* C18: every key of active_connections maps to a non-empty set of sockets,
\* in every reachable state: an entry is deleted with its last socket, be it
\* removed by its endpoint or by a failed send.
C18_NoEmptyEntry ==
    \A query_id \in DOMAIN active_connections : active_connections[query_id] # {}

\* Two sockets were the subscribers of one id: the endpoint of one removed
\* it, a failed send removed the other, and the id has no entry.
C18_Witness ==
    \E c1 \in Conns, c2 \in Conns, h \in Calls :
        /\ ws[c1].pc = "closed"
        /\ ws[c2].pc = "receiving" /\ ~ws[c2].open
        /\ ws[c1].query_id = ws[c2].query_id
        /\ call[h].pc = "done" /\ call[h].status = 200 /\ call[h].audience = {c2}
        /\ ws[c2].query_id \notin DOMAIN active_connections
        /\ active_connections = <<>>

\* C19: every send of a broadcast goes to a connection that is in the
\* registry under the broadcast's id at the time of the send: a connection
\* removed while the broadcast was suspended is not sent to.
C19_NeverSendsToRemoved ==
    [][\A h \in Calls :
          Sends(h) => Attempted(h) \in snapshot(call'[h].query_id)]_vars

\* C20: a stored query keeps its id, question, llm_answer and
\* assigned_experts through every step: responses, socket connects and
\* disconnects, broadcast turns and the submission of another query; the id
\* it carries is the key it is stored under.
C20_Step ==
    \A id \in DOMAIN queries_db \cap DOMAIN queries_db' :
        /\ queries_db'[id].id = queries_db[id].id
        /\ queries_db'[id].question = queries_db[id].question
        /\ queries_db'[id].llm_answer = queries_db[id].llm_answer
        /\ queries_db'[id].assigned_experts = queries_db[id].assigned_experts

C20_IdIsKey == \A id \in DOMAIN queries_db : queries_db[id].id = id

C20_FieldsFixedAtCreation == [][C20_Step]_vars /\ []C20_IdIsKey

\* Two queries with different questions are stored; the first one has gained
\* a response that was broadcast to a socket, which has since gone away.
C20_Witness ==
    /\ DOMAIN queries_db = {1, 2}
    /\ queries_db[1].question # queries_db[2].question
    /\ Len(queries_db[1].expert_responses) = 1
    /\ \E h \in Calls, c \in Conns :
          /\ call[h].pc = "done" /\ call[h].status = 200 /\ call[h].query_id = 1
          /\ Cardinality(PushesOf(c, h)) = 1
          /\ ws[c].pc = "closed"

\* Socket c is registered by this step, under the id its endpoint was given.
Subscribes(c, query_id) ==
    ws[c].pc = "new" /\ ws'[c].pc = "receiving" /\ ws'[c].query_id = query_id

\* clear_all_queries runs in this step on a store that holds queries.
Clears == DOMAIN queries_db # {} /\ DOMAIN queries_db' = {}

\* C21, as stated: a socket is registered under the id it names, stored or
\* not; clear_all_queries leaves active_connections as it is; a socket
\* registered under an id that is no longer stored receives nothing more.
C21_NoPushAfterClear ==
    [][ /\ \A c \in Conns, query_id \in QueryIds :
             Subscribes(c, query_id) => c \in snapshot(query_id)'
        /\ Clears => active_connections' = active_connections
        /\ \A c \in Conns :
             ( /\ ws[c].pc = "receiving"
               /\ ws[c].query_id \in issued \ DOMAIN queries_db ) =>
                 inbox'[c] = inbox[c] ]_vars

\* C21, amended: a socket is registered under the id it names, stored or
\* not; clear_all_queries leaves active_connections as it is; a socket
\* registered under an id that is no longer stored receives nothing from a
\* call that starts after the clear, and what it still receives is the one
\* message of a broadcast that was suspended in its loop when the clear ran.
C21_Step ==
    /\ \A c \in Conns, query_id \in QueryIds :
          Subscribes(c, query_id) => c \in snapshot(query_id)'
    /\ Clears => /\ active_connections' = active_connections
                 /\ inbox' = inbox
    /\ \A c \in Conns :
          ( /\ ws[c].pc = "receiving"
            /\ ws[c].query_id \in issued \ DOMAIN queries_db
            /\ inbox'[c] # inbox[c] ) =>
              \E h \in Calls :
                  /\ call[h].pc = "sending"
                  /\ call[h].query_id = ws[c].query_id
                  /\ c \in call[h].pending
                  /\ PushesOf(c, h) = {}
                  /\ inbox'[c] = Append(inbox[c],
                        [call |-> h, message |-> ExpertResponseMessage(call[h].response_obj)])

C21_RegistryIndependentOfStore == [][C21_Step]_vars

\* The store was cleared while a broadcast was suspended in its loop: the
\* socket it has yet to send to is still registered under the cleared id, and
\* a response sent to that id after the clear was refused and reached nobody.
C21_Witness ==
    \E c \in Conns, h \in Calls, later \in Calls :
        /\ DOMAIN queries_db = {}
        /\ Connected(c)
        /\ ws[c].query_id \in issued
        /\ c \in snapshot(ws[c].query_id)
        /\ call[h].pc = "sending"
        /\ call[h].query_id = ws[c].query_id
        /\ c \in call[h].pending
        /\ call[later].pc = "done" /\ call[later].status = 404
        /\ call[later].query_id = ws[c].query_id
        /\ call[later].audience = Conns
        /\ \A reached \in Conns : PushesOf(reached, later) = {}
====
